---- MODULE Spec2Model ----
(***************************************************************************)
(* Bantuan support bot, front-end/script.js: the chat widget's session     *)
(* state, message log, status notices, remote chat call with its local     *)
(* fallback, and the speech-recognition toggle.                            *)
(*                                                                         *)
(* Text is a sequence of string tokens (a token is a run of characters);   *)
(* the tokens " " and "\n" are the whitespace String.prototype.trim drops. *)
(* The page runs one handler at a time, so every handler is one action.    *)
(* Timers are untimed: a pending timer may fire at any later step.         *)
(***************************************************************************)
EXTENDS Integers, Sequences, FiniteSets, TLC

\* ------------------------------------------------------------------ bounds
\* sends accepted in one run
MaxSends == 2
\* turns in the message log
MaxLog == 4
\* pending auto-dismiss timers
MaxTimers == 1
\* wall-clock readings after the first
MaxClock == 1

\* turns in the log when a user action that appends is taken, whole-session runs
SessionLog == 2
\* calls, fallback timers and auto-dismiss timers outstanding at once, whole-session runs
SessionPending == 2

\* ------------------------------------------------------------- JS helpers
Whitespace == {" ", "\n"}

RECURSIVE TrimStart(_)
TrimStart(s) ==
    IF s # <<>> /\ Head(s) \in Whitespace THEN TrimStart(Tail(s)) ELSE s

RECURSIVE TrimEnd(_)
TrimEnd(s) ==
    IF s # <<>> /\ s[Len(s)] \in Whitespace
    THEN TrimEnd(SubSeq(s, 1, Len(s) - 1))
    ELSE s

\* String.prototype.trim
Trim(s) == TrimEnd(TrimStart(s))

\* Members every object literal inherits from Object.prototype, with the string
\* each converts to: table[key] finds them although the literal has no such key.
\* All are functions, except __proto__, which is Object.prototype itself.
ObjectPrototype ==
    ("constructor" :> "function Object() { [native code] }")
    @@ ("toString" :> "function toString() { [native code] }")
    @@ ("valueOf" :> "function valueOf() { [native code] }")
    @@ ("toLocaleString" :> "function toLocaleString() { [native code] }")
    @@ ("hasOwnProperty" :> "function hasOwnProperty() { [native code] }")
    @@ ("isPrototypeOf" :> "function isPrototypeOf() { [native code] }")
    @@ ("propertyIsEnumerable" :> "function propertyIsEnumerable() { [native code] }")
    @@ ("__defineGetter__" :> "function __defineGetter__() { [native code] }")
    @@ ("__defineSetter__" :> "function __defineSetter__() { [native code] }")
    @@ ("__lookupGetter__" :> "function __lookupGetter__() { [native code] }")
    @@ ("__lookupSetter__" :> "function __lookupSetter__() { [native code] }")
    @@ ("__proto__" :> "[object Object]")

\* table[key] || fallback, for a table of strings, read as a string
LookupOr(table, key, fallback) ==
    IF key \in DOMAIN table THEN table[key]
    ELSE IF key \in DOMAIN ObjectPrototype THEN ObjectPrototype[key]
    ELSE fallback

\* Date.prototype.toLocaleTimeString of the clock reading c
toLocaleTimeString(c) == "T" \o ToString(c)

\* ------------------------------------------------------ language registry
\* Values with letters outside ASCII are written by their ASCII part.
placeholders ==
    [en |-> "Type your message here... (Press Enter to send)",
     id |-> "Ketik pesan Anda di sini... (Tekan Enter untuk mengirim)",
     ms |-> "Taip mesej anda di sini... (Tekan Enter untuk hantar)",
     th |-> "th... (Enter)",
     vi |-> "vi... (Enter)",
     tl |-> "I-type ang inyong mensahe dito... (Pindutin ang Enter para ipadala)",
     my |-> "my... (Enter)",
     km |-> "km... (Enter)",
     lo |-> "lo... (Enter)",
     bn |-> "bn... (Enter)"]

languages ==
    [en |-> "English",
     id |-> "Bahasa Indonesia",
     ms |-> "Bahasa Malaysia",
     th |-> "(Thai)",
     vi |-> "Tieng Viet",
     tl |-> "Filipino",
     my |-> "(Myanmar)",
     km |-> "(Khmer)",
     lo |-> "(Lao)",
     bn |-> "(Bengali)"]

speechCodes ==
    [en |-> "en-US",
     id |-> "id-ID",
     ms |-> "ms-MY",
     th |-> "th-TH",
     vi |-> "vi-VN",
     tl |-> "tl-PH",
     my |-> "my-MM",
     km |-> "km-KH",
     lo |-> "lo-LA",
     bn |-> "bn-BD"]

PlaceholderFor(code) == LookupOr(placeholders, code, placeholders.en)

getLanguageName(code) == LookupOr(languages, code, "Unknown")

\* as getLanguageCode, without the || 'en-US'
getLanguageCode_NoDefault(code) == LookupOr(speechCodes, code, "undefined")

getLanguageCode(code) == LookupOr(speechCodes, code, "en-US")

\* ------------------------------------------------------------------ state
VARIABLES
    currentLanguage,  \* active language code
    currentCategory,  \* active category id
    isListening,      \* set by recognition.onstart, reset by recognition.onend
    recognition,      \* TRUE when the platform offers speech recognition, else null
    recLang,          \* recognition.lang
    recState,         \* the platform recognizer: idle, starting, capturing, finishing
    chatMessages,     \* the message elements of the log, in document order
    messageInput,     \* messageInput.value
    placeholder,      \* messageInput.placeholder
    statusEls,        \* the .status-message elements of the document, in order
    hideTimers,       \* pending setTimeout(hideStatusMessage, ..): notice text -> count
    requests,         \* sends whose fetch or fallback timer is pending
    nextSid,          \* number of the next accepted send
    clock,            \* wall-clock reading
    download,         \* the artifact the running handler handed to the browser
    threw,            \* the running handler ended in an uncaught exception
    location,         \* window.location
    sessionStorage,   \* session-scoped storage
    resolved,         \* values returned by the calls of the endpoint specification
    hist              \* history, per send: user turns appended, remote calls issued,
                      \* outcome, failure notice shown, reply turns appended

vars ==
    <<currentLanguage, currentCategory, isListening, recognition, recLang, recState,
      chatMessages, messageInput, placeholder, statusEls, hideTimers, requests,
      nextSid, clock, download, threw, location, sessionStorage, resolved, hist>>

NoDownload == [made |-> FALSE]

\* --------------------------------------------------------- inputs (bounded)
\* what the user can have in the input field
RawInputs == {<<" ">>, <<" ", "reset my password", "\n">>, <<"hi">>}

\* codes the language selector can yield
LanguageChoices == {"en", "id", "ar", "constructor", "__proto__"}

\* category controls: data-category id and the control's label
CategoryControls ==
    {[id |-> "general", label |-> <<"General">>],
     [id |-> "account", label |-> <<" ", "Account", " ">>],
     [id |-> "other", label |-> <<"Other">>],
     [id |-> "constructor", label |-> <<"Constructor">>]}

\* what the recognizer can hear
Transcripts == {<<"help me">>}

\* what the remote call can come back with: a network error (no response), or a
\* response with its ok flag and, when the body parses, the body's fields
FetchResults ==
    {[net |-> FALSE, ok |-> FALSE, statusLine |-> "", json |-> FALSE,
      status |-> "", response |-> <<>>, error |-> ""],
     [net |-> TRUE, ok |-> FALSE, statusLine |-> "500 Internal Server Error",
      json |-> FALSE, status |-> "", response |-> <<>>, error |-> ""],
     [net |-> TRUE, ok |-> TRUE, statusLine |-> "200 OK", json |-> FALSE,
      status |-> "", response |-> <<>>, error |-> ""],
     [net |-> TRUE, ok |-> TRUE, statusLine |-> "200 OK", json |-> TRUE,
      status |-> "success", response |-> <<"R">>, error |-> ""],
     [net |-> TRUE, ok |-> TRUE, statusLine |-> "200 OK", json |-> TRUE,
      status |-> "error", response |-> <<>>, error |-> "backend failed"],
     [net |-> TRUE, ok |-> TRUE, statusLine |-> "200 OK", json |-> TRUE,
      status |-> "error", response |-> <<>>, error |-> ""]}

\* Math.random() is RandomDraw / RandomSteps for a draw in 0 .. RandomSteps - 1
RandomSteps == 3

\* deployment contexts of the page
Hostnames ==
    {<<"localhost">>, <<"127.0.0.1">>, <<"myapp.", "azurestaticapps.net">>,
     <<"azurestaticapps.net", ".example.org">>, <<"example.com">>}

Locations ==
    {[protocol |-> "file:", hostname |-> <<>>, port |-> ""]}
    \cup [protocol : {"http:", "https:"}, hostname : Hostnames, port : {"", "8443"}]

\* session storage: whether the key backendUrl was stored, and its value
Storages ==
    {[has |-> FALSE, backendUrl |-> <<>>],
     [has |-> TRUE, backendUrl |-> <<>>],
     [has |-> TRUE, backendUrl |-> <<"https://custom.example">>]}

\* ------------------------------------------------------ endpoint resolution
\* String.prototype.includes, on tokens
Includes(s, tok) == \E i \in DOMAIN s : s[i] = tok

getApiEndpoint ==
    IF location.protocol = "file:" THEN <<"http://localhost:5000">>
    ELSE IF location.hostname = <<"localhost">> \/ location.hostname = <<"127.0.0.1">>
    THEN <<"http://localhost:5000">>
    ELSE IF Includes(location.hostname, "azurestaticapps.net")
    THEN <<"https://bantuan-bjgjgwgrhmcwetah.australiaeast-01.azurewebsites.net">>
    ELSE IF sessionStorage.has /\ sessionStorage.backendUrl # <<>>
    THEN sessionStorage.backendUrl
    ELSE <<location.protocol, "//">> \o location.hostname

\* ------------------------------------------------------------ message log
\* A turn is a message element: its class (sender), and the text of its sender,
\* time and text spans.  sid and kind are history: the send a turn belongs to
\* (0 for none) and what appended it.
\* as addMessage, inserting the element before the first one
addMessage_Prepend(log, sender, text, now, sid, kind) ==
    <<[sender |-> sender,
       name |-> IF sender = "bot" THEN "Bantuan Bot" ELSE "You",
       time |-> toLocaleTimeString(now),
       text |-> text,
       sid |-> sid,
       kind |-> kind]>> \o log

addMessage(log, sender, text, now, sid, kind) ==
    Append(log,
           [sender |-> sender,
            name |-> IF sender = "bot" THEN "Bantuan Bot" ELSE "You",
            time |-> toLocaleTimeString(now),
            text |-> text,
            sid |-> sid,
            kind |-> kind])

\* the markup handleClearChat writes: the text span holds the greeting between
\* the line breaks and indentation of the template literal
GreetingTurn ==
    [sender |-> "bot",
     name |-> "Bantuan Bot",
     time |-> "Just now",
     text |-> <<"\n", " ",
                "Hello! I'm Bantuan, your multi-lingual support assistant. I can help you in multiple ASEAN languages. How can I assist you today?",
                "\n", " ">>,
     sid |-> 0,
     kind |-> "greeting"]

\* ---------------------------------------------------------------- notices
\* as showStatusMessage, leaving the existing notice in the document
showStatusMessage_Queue(els, message, type) ==
    Append(els,
           [text |-> message, type |-> type, hiding |-> FALSE,
            gen |-> IF els # <<>> THEN 1 - els[1].gen ELSE 0])

\* querySelector finds the first .status-message; it is removed and a new one
\* is appended to the body.  gen is history: it tells the new element from the
\* one it replaces.
showStatusMessage(els, message, type) ==
    Append(IF els # <<>> THEN Tail(els) ELSE els,
           [text |-> message, type |-> type, hiding |-> FALSE,
            gen |-> IF els # <<>> THEN 1 - els[1].gen ELSE 0])

\* the first .status-message starts its slideOut animation and a 300 ms timer
\* to remove that element is set (hiding: such a timer is pending for it)
hideStatusMessage(els) ==
    IF els # <<>> THEN [els EXCEPT ![1].hiding = TRUE] ELSE els

\* element i leaves the document
RemoveAt(els, i) == SubSeq(els, 1, i - 1) \o SubSeq(els, i + 1, Len(els))

PendingHideTimers ==
    LET RECURSIVE Sum(_)
        Sum(S) == IF S = {} THEN 0
                  ELSE LET k == CHOOSE k \in S : TRUE
                       IN hideTimers[k] + Sum(S \ {k})
    IN Sum(DOMAIN hideTimers)

NoticeTexts ==
    {"Voice recognition error. Please try again.",
     "Voice recognition not supported in this browser",
     "Chat cleared successfully",
     "Chat log downloaded successfully"}

\* setTimeout(hideStatusMessage, ..) after showing the notice `text`
ScheduleHide(timers, text) == [timers EXCEPT ![text] = @ + 1]

\* -------------------------------------------------------- fallback responder
responses(userMessage) ==
    [general |->
        << <<"I understand you need help. Based on your message \"">> \o userMessage
             \o <<"\", I'm here to assist you. What specific issue are you experiencing?">>,
           <<"Thank you for reaching out! I've noted your concern about \"">> \o userMessage
             \o <<"\". Let me help you resolve this step by step.">>,
           <<"I see you mentioned \"">> \o userMessage
             \o <<"\". I'm processing this in ", getLanguageName(currentLanguage),
                  " and will provide the best assistance possible.">> >>,
     technical |->
        << <<"I can help with technical issues. Regarding \"">> \o userMessage
             \o <<"\", let me walk you through some troubleshooting steps.">>,
           <<"Technical support activated! For the issue \"">> \o userMessage
             \o <<"\", I recommend we start with basic diagnostics.">>,
           <<"I understand you're experiencing technical difficulties with \"">> \o userMessage
             \o <<"\". Let's solve this together.">> >>,
     account |->
        << <<"I can assist with account-related inquiries. About \"">> \o userMessage
             \o <<"\", I'll need to verify some information first.">>,
           <<"For account issues like \"">> \o userMessage
             \o <<"\", I can guide you through the resolution process securely.">>,
           <<"Account support here! I see your concern about \"">> \o userMessage
             \o <<"\". Let me help you with that.">> >>,
     billing |->
        << <<"I can help with billing questions. Regarding \"">> \o userMessage
             \o <<"\", let me provide you with the relevant information.">>,
           <<"For billing inquiries about \"">> \o userMessage
             \o <<"\", I can assist you with explanations and next steps.">>,
           <<"Billing support activated! I understand your question about \"">> \o userMessage
             \o <<"\". Let me clarify this for you.">> >>]

\* responses[currentCategory] || responses.general, and the element at
\* Math.floor(Math.random() * length).  A category id that names a member of
\* Object.prototype finds that member, which has no indexed elements: the result
\* is undefined, and addMessage's textContent = undefined leaves the text empty.
generateBotResponse(userMessage, draw) ==
    LET table == responses(userMessage)
    IN IF currentCategory \in DOMAIN table
       THEN table[currentCategory][((draw * Len(table[currentCategory])) \div RandomSteps) + 1]
       ELSE IF currentCategory \in DOMAIN ObjectPrototype
       THEN <<>>
       ELSE table.general[((draw * Len(table.general)) \div RandomSteps) + 1]

\* ------------------------------------------------------------ initial state
\* The script's globals, and what initializeApp leaves: the recognizer's locale
\* and the placeholder of the initial language.  The page is served from the
\* development host.
InitPage ==
    /\ currentLanguage = "en"
    /\ currentCategory = "general"
    /\ isListening = FALSE
    /\ recognition \in BOOLEAN
    /\ recLang = IF recognition THEN getLanguageCode("en") ELSE ""
    /\ recState = "idle"
    /\ chatMessages = <<>>
    /\ messageInput = <<>>
    /\ placeholder = PlaceholderFor("en")
    /\ statusEls = <<>>
    /\ hideTimers = [t \in NoticeTexts |-> 0]
    /\ requests = {}
    /\ nextSid = 1
    /\ clock = 0
    /\ download = NoDownload
    /\ threw = FALSE
    /\ resolved = <<>>
    /\ hist = [s \in 1..MaxSends |->
                 [userTurns |-> 0, fetches |-> 0, outcome |-> "none",
                  noticed |-> FALSE, replies |-> 0]]

Init ==
    /\ InitPage
    /\ location = [protocol |-> "http:", hostname |-> <<"localhost">>, port |-> "8000"]
    /\ sessionStorage = [has |-> FALSE, backendUrl |-> <<>>]

\* what a handler that downloads nothing and completes normally leaves
Quiet == download' = NoDownload /\ threw' = FALSE

Context == <<location, sessionStorage, resolved>>

\* ------------------------------------------------------------------- sending
\* the user edits the input field
TypeText(t) ==
    /\ messageInput' = t
    /\ Quiet
    /\ UNCHANGED <<currentLanguage, currentCategory, isListening, recognition, recLang,
                   recState, chatMessages, placeholder, statusEls, hideTimers, requests,
                   nextSid, clock, hist, Context>>

\* the request fetch is called with: built before the first await, from the
\* session state of that moment.  issuedAt is history: the length of the log
\* when the call was issued.
sendMessageToBackend(message, log, sid) ==
    [sid |-> sid,
     url |-> getApiEndpoint \o <<"/api/chat">>,
     message |-> message,
     language |-> currentLanguage,
     category |-> currentCategory,
     issuedAt |-> Len(log),
     phase |-> "fetch"]

\* as AcceptedSend, with the remote call issued before the user turn is appended
AcceptedSend_CallFirst(message) ==
    /\ nextSid <= MaxSends
    /\ Len(chatMessages) + Cardinality(requests) + 2 <= MaxLog
    /\ requests' = requests \cup {sendMessageToBackend(message, chatMessages, nextSid)}
    /\ chatMessages' = addMessage(chatMessages, "user", message, clock, nextSid, "user")
    /\ messageInput' = <<>>
    /\ statusEls' = showStatusMessage(statusEls, "Processing your request...", "info")
    /\ hist' = [hist EXCEPT ![nextSid].userTurns = @ + 1, ![nextSid].fetches = @ + 1]
    /\ nextSid' = nextSid + 1
    /\ Quiet
    /\ UNCHANGED <<currentLanguage, currentCategory, isListening, recognition,
                   recLang, recState, placeholder, hideTimers, clock, Context>>

\* as AcceptedSend, with the new call taking the place of the pending ones
AcceptedSend_DropsPending(message) ==
    /\ nextSid <= MaxSends
    /\ Len(chatMessages) + Cardinality(requests) + 2 <= MaxLog
    /\ LET log1 == addMessage(chatMessages, "user", message, clock, nextSid, "user")
       IN /\ chatMessages' = log1
          /\ requests' = {sendMessageToBackend(message, log1, nextSid)}
    /\ messageInput' = <<>>
    /\ statusEls' = showStatusMessage(statusEls, "Processing your request...", "info")
    /\ hist' = [hist EXCEPT ![nextSid].userTurns = @ + 1, ![nextSid].fetches = @ + 1]
    /\ nextSid' = nextSid + 1
    /\ Quiet
    /\ UNCHANGED <<currentLanguage, currentCategory, isListening, recognition,
                   recLang, recState, placeholder, hideTimers, clock, Context>>

\* handleSendMessage past its early return: the user turn, the cleared field,
\* the processing notice, then the remote call
AcceptedSend(message) ==
    /\ nextSid <= MaxSends
    /\ Len(chatMessages) + Cardinality(requests) + 2 <= MaxLog
    /\ LET log1 == addMessage(chatMessages, "user", message, clock, nextSid, "user")
       IN /\ chatMessages' = log1
          /\ requests' = requests \cup {sendMessageToBackend(message, log1, nextSid)}
    /\ messageInput' = <<>>
    /\ statusEls' = showStatusMessage(statusEls, "Processing your request...", "info")
    /\ hist' = [hist EXCEPT ![nextSid].userTurns = @ + 1, ![nextSid].fetches = @ + 1]
    /\ nextSid' = nextSid + 1
    /\ Quiet
    /\ UNCHANGED <<currentLanguage, currentCategory, isListening, recognition,
                   recLang, recState, placeholder, hideTimers, clock, Context>>

\* as handleSendMessageOn, reading the field without trimming it
handleSendMessageOn_Untrimmed(raw) ==
    IF raw = <<>>
    THEN /\ messageInput' = raw
         /\ Quiet
         /\ UNCHANGED <<currentLanguage, currentCategory, isListening, recognition,
                        recLang, recState, chatMessages, placeholder, statusEls,
                        hideTimers, requests, nextSid, clock, hist, Context>>
    ELSE AcceptedSend(raw)

\* handleSendMessage when the input field holds raw
handleSendMessageOn(raw) ==
    IF Trim(raw) = <<>>
    THEN /\ messageInput' = raw
         /\ Quiet
         /\ UNCHANGED <<currentLanguage, currentCategory, isListening, recognition,
                        recLang, recState, chatMessages, placeholder, statusEls,
                        hideTimers, requests, nextSid, clock, hist, Context>>
    ELSE AcceptedSend(Trim(raw))

\* the click on the send button, or Enter in the input field
handleSendMessage == handleSendMessageOn(messageInput)

\* the user replaces the field's content by raw and sends
Submit(raw) == handleSendMessageOn(raw)

\* as ErrorMessage, taking the body's status "ok" for success
ErrorMessage_StatusOk(res) ==
    IF ~res.net THEN "Failed to fetch"
    ELSE IF ~res.ok THEN "API error: " \o res.statusLine
    ELSE IF ~res.json THEN "Unexpected token < in JSON at position 0"
    ELSE IF res.status = "ok" THEN ""
    ELSE IF res.error # "" THEN res.error
    ELSE "Unknown error from API"

\* the Error the try block ends with for a fetch result, "" when it ends normally
ErrorMessage(res) ==
    IF ~res.net THEN "Failed to fetch"
    ELSE IF ~res.ok THEN "API error: " \o res.statusLine
    ELSE IF ~res.json THEN "Unexpected token < in JSON at position 0"
    ELSE IF res.status = "success" THEN ""
    ELSE IF res.error # "" THEN res.error
    ELSE "Unknown error from API"

\* as FetchCompletes, with a catch block that sets no fallback timer
FetchCompletes_NoFallback(r, res) ==
    /\ r \in requests
    /\ r.phase = "fetch"
    /\ IF ErrorMessage(res) = ""
       THEN /\ statusEls' = hideStatusMessage(statusEls)
            /\ chatMessages' = addMessage(chatMessages, "bot", res.response, clock, r.sid, "reply")
            /\ requests' = requests \ {r}
            /\ hist' = [hist EXCEPT ![r.sid].outcome = "success", ![r.sid].replies = @ + 1]
       ELSE /\ statusEls' = showStatusMessage(hideStatusMessage(statusEls),
                                              "Error: " \o ErrorMessage(res), "error")
            /\ chatMessages' = chatMessages
            /\ requests' = requests \ {r}
            /\ hist' = [hist EXCEPT ![r.sid].outcome = "failure", ![r.sid].noticed = TRUE]
    /\ Quiet
    /\ UNCHANGED <<currentLanguage, currentCategory, isListening, recognition, recLang,
                   recState, messageInput, placeholder, hideTimers, nextSid, clock, Context>>

\* the continuation of sendMessageToBackend once the call has come back
FetchCompletes(r, res) ==
    /\ r \in requests
    /\ r.phase = "fetch"
    /\ IF ErrorMessage(res) = ""
       THEN /\ statusEls' = hideStatusMessage(statusEls)
            /\ chatMessages' = addMessage(chatMessages, "bot", res.response, clock, r.sid, "reply")
            /\ requests' = requests \ {r}
            /\ hist' = [hist EXCEPT ![r.sid].outcome = "success", ![r.sid].replies = @ + 1]
       ELSE /\ statusEls' = showStatusMessage(hideStatusMessage(statusEls),
                                              "Error: " \o ErrorMessage(res), "error")
            /\ chatMessages' = chatMessages
            /\ requests' = (requests \ {r}) \cup {[r EXCEPT !.phase = "fallback"]}
            /\ hist' = [hist EXCEPT ![r.sid].outcome = "failure", ![r.sid].noticed = TRUE]
    /\ Quiet
    /\ UNCHANGED <<currentLanguage, currentCategory, isListening, recognition, recLang,
                   recState, messageInput, placeholder, hideTimers, nextSid, clock, Context>>

\* as FallbackTimer, for a timer that repeats (setInterval)
FallbackTimer_Repeats(r, draw) ==
    /\ r \in requests
    /\ r.phase = "fallback"
    /\ chatMessages' = addMessage(chatMessages, "bot", generateBotResponse(r.message, draw),
                                  clock, r.sid, "fallback")
    /\ hist' = [hist EXCEPT ![r.sid].replies = @ + 1]
    /\ Quiet
    /\ UNCHANGED <<currentLanguage, currentCategory, isListening, recognition, recLang,
                   recState, messageInput, placeholder, statusEls, hideTimers, nextSid,
                   clock, requests, Context>>

\* as FallbackTimer, with the template table chosen by the category of the request
FallbackTimer_RequestCategory(r, draw) ==
    /\ r \in requests
    /\ r.phase = "fallback"
    /\ LET table == responses(r.message)
           templates == IF r.category \in DOMAIN table THEN table[r.category]
                        ELSE table.general
       IN chatMessages' = addMessage(chatMessages, "bot",
                              IF r.category \in DOMAIN ObjectPrototype THEN <<>>
                              ELSE templates[((draw * Len(templates)) \div RandomSteps) + 1],
                              clock, r.sid, "fallback")
    /\ requests' = requests \ {r}
    /\ hist' = [hist EXCEPT ![r.sid].replies = @ + 1]
    /\ Quiet
    /\ UNCHANGED <<currentLanguage, currentCategory, isListening, recognition, recLang,
                   recState, messageInput, placeholder, statusEls, hideTimers, nextSid,
                   clock, Context>>

\* the 1000 ms timer of the catch block
FallbackTimer(r, draw) ==
    /\ r \in requests
    /\ r.phase = "fallback"
    /\ chatMessages' = addMessage(chatMessages, "bot", generateBotResponse(r.message, draw),
                                  clock, r.sid, "fallback")
    /\ requests' = requests \ {r}
    /\ hist' = [hist EXCEPT ![r.sid].replies = @ + 1]
    /\ Quiet
    /\ UNCHANGED <<currentLanguage, currentCategory, isListening, recognition, recLang,
                   recState, messageInput, placeholder, statusEls, hideTimers, nextSid,
                   clock, Context>>

\* --------------------------------------------------------------- voice input
\* recognition.start(): the platform raises InvalidStateError on a recognizer that
\* was started and has not ended
CanStart == recState = "idle"

\* recognition.stop(): capture stops; a result for the audio so far may follow
AfterStop(st) == IF st = "capturing" THEN "stopping" ELSE st

\* as toggleVoiceRecognition, without the check for a missing recognizer
toggleVoiceRecognition_NoCheck ==
    IF isListening
    THEN /\ recState' = AfterStop(recState)
         /\ threw' = ~recognition
         /\ download' = NoDownload
         /\ UNCHANGED <<currentLanguage, currentCategory, isListening, recognition, recLang,
                        chatMessages, messageInput, placeholder, statusEls, hideTimers,
                        requests, nextSid, clock, hist, Context>>
    ELSE /\ recLang' = IF recognition THEN getLanguageCode(currentLanguage) ELSE recLang
         /\ recState' = IF recognition /\ CanStart THEN "starting" ELSE recState
         /\ threw' = (~recognition \/ ~CanStart)
         /\ download' = NoDownload
         /\ UNCHANGED <<currentLanguage, currentCategory, isListening, recognition,
                        chatMessages, messageInput, placeholder, statusEls, hideTimers,
                        requests, nextSid, clock, hist, Context>>

toggleVoiceRecognition ==
    IF ~recognition
    THEN /\ PendingHideTimers < MaxTimers
         /\ statusEls' = showStatusMessage(statusEls,
                             "Voice recognition not supported in this browser", "error")
         /\ hideTimers' = ScheduleHide(hideTimers,
                             "Voice recognition not supported in this browser")
         /\ Quiet
         /\ UNCHANGED <<currentLanguage, currentCategory, isListening, recognition, recLang,
                        recState, chatMessages, messageInput, placeholder, requests,
                        nextSid, clock, hist, Context>>
    ELSE IF isListening
    THEN /\ recState' = AfterStop(recState)
         /\ Quiet
         /\ UNCHANGED <<currentLanguage, currentCategory, isListening, recognition, recLang,
                        chatMessages, messageInput, placeholder, statusEls, hideTimers,
                        requests, nextSid, clock, hist, Context>>
    ELSE /\ recLang' = getLanguageCode(currentLanguage)
         /\ recState' = IF CanStart THEN "starting" ELSE recState
         /\ threw' = ~CanStart
         /\ download' = NoDownload
         /\ UNCHANGED <<currentLanguage, currentCategory, isListening, recognition,
                        chatMessages, messageInput, placeholder, statusEls, hideTimers,
                        requests, nextSid, clock, hist, Context>>

\* recognition.onstart
OnStart ==
    /\ recState = "starting"
    /\ recState' = "capturing"
    /\ isListening' = TRUE
    /\ statusEls' = showStatusMessage(statusEls, "Listening... Speak now", "info")
    /\ Quiet
    /\ UNCHANGED <<currentLanguage, currentCategory, recognition, recLang, chatMessages,
                   messageInput, placeholder, hideTimers, requests, nextSid, clock, hist,
                   Context>>

\* recognition.onresult
OnResult(transcript) ==
    /\ recState \in {"capturing", "stopping"}
    /\ recState' = "finishing"
    /\ messageInput' = transcript
    /\ Quiet
    /\ UNCHANGED <<currentLanguage, currentCategory, isListening, recognition, recLang,
                   chatMessages, placeholder, statusEls, hideTimers, requests, nextSid,
                   clock, hist, Context>>

\* recognition.onerror
OnError ==
    /\ recState \in {"starting", "capturing", "stopping"}
    /\ PendingHideTimers < MaxTimers
    /\ recState' = "finishing"
    /\ statusEls' = showStatusMessage(statusEls,
                        "Voice recognition error. Please try again.", "error")
    /\ hideTimers' = ScheduleHide(hideTimers, "Voice recognition error. Please try again.")
    /\ Quiet
    /\ UNCHANGED <<currentLanguage, currentCategory, isListening, recognition, recLang,
                   chatMessages, messageInput, placeholder, requests, nextSid, clock, hist,
                   Context>>

\* as OnEnd, leaving isListening as it is
OnEnd_KeepsListening ==
    /\ recState \in {"capturing", "stopping", "finishing"}
    /\ recState' = "idle"
    /\ statusEls' = hideStatusMessage(statusEls)
    /\ Quiet
    /\ UNCHANGED <<currentLanguage, currentCategory, isListening, recognition, recLang,
                   chatMessages, messageInput, placeholder, hideTimers, requests, nextSid,
                   clock, hist, Context>>

\* recognition.onend
OnEnd ==
    /\ recState \in {"capturing", "stopping", "finishing"}
    /\ recState' = "idle"
    /\ isListening' = FALSE
    /\ statusEls' = hideStatusMessage(statusEls)
    /\ Quiet
    /\ UNCHANGED <<currentLanguage, currentCategory, recognition, recLang, chatMessages,
                   messageInput, placeholder, hideTimers, requests, nextSid, clock, hist,
                   Context>>

\* the keydown listener on Escape
EscapeKey ==
    /\ recState' = IF isListening THEN AfterStop(recState) ELSE recState
    /\ Quiet
    /\ UNCHANGED <<currentLanguage, currentCategory, isListening, recognition, recLang,
                   chatMessages, messageInput, placeholder, statusEls, hideTimers,
                   requests, nextSid, clock, hist, Context>>

\* ------------------------------------------------------------ clear and export
\* as handleClearChat, clearing without regard to the dialog's answer
handleClearChat_Unconfirmed(confirmed) ==
    /\ PendingHideTimers < MaxTimers
    /\ chatMessages' = <<GreetingTurn>>
    /\ statusEls' = showStatusMessage(statusEls, "Chat cleared successfully", "success")
    /\ hideTimers' = ScheduleHide(hideTimers, "Chat cleared successfully")
    /\ Quiet
    /\ UNCHANGED <<currentLanguage, currentCategory, isListening, recognition, recLang,
                   recState, messageInput, placeholder, requests, nextSid, clock,
                   hist, Context>>

\* as handleClearChat, with the category going back to its initial value
handleClearChat_ResetsCategory(confirmed) ==
    IF confirmed
    THEN /\ PendingHideTimers < MaxTimers
         /\ chatMessages' = <<GreetingTurn>>
         /\ currentCategory' = "general"
         /\ statusEls' = showStatusMessage(statusEls, "Chat cleared successfully", "success")
         /\ hideTimers' = ScheduleHide(hideTimers, "Chat cleared successfully")
         /\ Quiet
         /\ UNCHANGED <<currentLanguage, isListening, recognition, recLang,
                        recState, messageInput, placeholder, requests, nextSid, clock,
                        hist, Context>>
    ELSE /\ Quiet
         /\ UNCHANGED <<currentLanguage, currentCategory, isListening, recognition, recLang,
                        recState, chatMessages, messageInput, placeholder, statusEls,
                        hideTimers, requests, nextSid, clock, hist, Context>>

\* the click on the clear control, or Ctrl/Cmd + K; confirmed is the answer to
\* the confirm dialog
handleClearChat(confirmed) ==
    IF confirmed
    THEN /\ PendingHideTimers < MaxTimers
         /\ chatMessages' = <<GreetingTurn>>
         /\ statusEls' = showStatusMessage(statusEls, "Chat cleared successfully", "success")
         /\ hideTimers' = ScheduleHide(hideTimers, "Chat cleared successfully")
         /\ Quiet
         /\ UNCHANGED <<currentLanguage, currentCategory, isListening, recognition, recLang,
                        recState, messageInput, placeholder, requests, nextSid, clock,
                        hist, Context>>
    ELSE /\ Quiet
         /\ UNCHANGED <<currentLanguage, currentCategory, isListening, recognition, recLang,
                        recState, chatMessages, messageInput, placeholder, statusEls,
                        hideTimers, requests, nextSid, clock, hist, Context>>

\* the record the forEach of handleDownloadChat writes for one message element
TurnRecord(m) == <<"[", m.time, "] ", m.name, ":\n">> \o m.text \o <<"\n\n">>

\* as TurnRecords, newest turn first
TurnRecords_NewestFirst(log) == [i \in 1..Len(log) |-> TurnRecord(log[Len(log) - i + 1])]

\* querySelectorAll('.message') in document order, one record each
TurnRecords(log) == [i \in 1..Len(log) |-> TurnRecord(log[i])]

\* the text of the chat log: its header lines and its records
ChatLog(log, now) ==
    [made |-> TRUE,
     filename |-> "bantuan-chat-" \o "2025-01-01" \o ".txt",
     header |-> <<"Bantuan Support Chat Log\n",
                  "Generated: " \o "1/1/2025, " \o toLocaleTimeString(now) \o "\n",
                  "Language: " \o getLanguageName(currentLanguage) \o "\n",
                  "Category: " \o currentCategory \o "\n",
                  "==================================================\n\n">>,
     records |-> TurnRecords(log)]

handleDownloadChat ==
    /\ PendingHideTimers < MaxTimers
    /\ download' = ChatLog(chatMessages, clock)
    /\ threw' = FALSE
    /\ statusEls' = showStatusMessage(statusEls, "Chat log downloaded successfully", "success")
    /\ hideTimers' = ScheduleHide(hideTimers, "Chat log downloaded successfully")
    /\ UNCHANGED <<currentLanguage, currentCategory, isListening, recognition, recLang,
                   recState, chatMessages, messageInput, placeholder, requests, nextSid,
                   clock, hist, Context>>

\* ------------------------------------------------------- language and category
\* as handleLanguageChange, without the update of recognition.lang
handleLanguageChange_KeepsLocale(code) ==
    /\ Len(chatMessages) + Cardinality(requests) + 1 <= MaxLog
    /\ currentLanguage' = code
    /\ placeholder' = PlaceholderFor(code)
    /\ chatMessages' = addMessage(chatMessages, "bot",
                           <<"Language changed to ", getLanguageName(code),
                             ". How can I help you?">>,
                           clock, 0, "language")
    /\ Quiet
    /\ UNCHANGED <<currentCategory, isListening, recognition, recLang, recState,
                   messageInput, statusEls, hideTimers, requests, nextSid, clock, hist,
                   Context>>

handleLanguageChange(code) ==
    /\ Len(chatMessages) + Cardinality(requests) + 1 <= MaxLog
    /\ currentLanguage' = code
    /\ placeholder' = PlaceholderFor(code)
    /\ recLang' = IF recognition THEN getLanguageCode(code) ELSE recLang
    /\ chatMessages' = addMessage(chatMessages, "bot",
                           <<"Language changed to ", getLanguageName(code),
                             ". How can I help you?">>,
                           clock, 0, "language")
    /\ Quiet
    /\ UNCHANGED <<currentCategory, isListening, recognition, recState, messageInput,
                   statusEls, hideTimers, requests, nextSid, clock, hist, Context>>

\* as handleCategoryChange, for a control without a data-category attribute
handleCategoryChange_NoDataset(btn) ==
    /\ Len(chatMessages) + Cardinality(requests) + 1 <= MaxLog
    /\ currentCategory' = "undefined"
    /\ chatMessages' = addMessage(chatMessages, "bot",
                           <<"Switched to ">> \o Trim(btn.label)
                             \o <<" support. What can I help you with?">>,
                           clock, 0, "category")
    /\ Quiet
    /\ UNCHANGED <<currentLanguage, isListening, recognition, recLang, recState,
                   messageInput, placeholder, statusEls, hideTimers, requests, nextSid,
                   clock, hist, Context>>

handleCategoryChange(btn) ==
    /\ Len(chatMessages) + Cardinality(requests) + 1 <= MaxLog
    /\ currentCategory' = btn.id
    /\ chatMessages' = addMessage(chatMessages, "bot",
                           <<"Switched to ">> \o Trim(btn.label)
                             \o <<" support. What can I help you with?">>,
                           clock, 0, "category")
    /\ Quiet
    /\ UNCHANGED <<currentLanguage, isListening, recognition, recLang, recState,
                   messageInput, placeholder, statusEls, hideTimers, requests, nextSid,
                   clock, hist, Context>>

\* ---------------------------------------------------------------------- timers
\* a setTimeout(hideStatusMessage, ..) fires
HideTimerFires(text) ==
    /\ hideTimers[text] > 0
    /\ hideTimers' = [hideTimers EXCEPT ![text] = @ - 1]
    /\ statusEls' = hideStatusMessage(statusEls)
    /\ Quiet
    /\ UNCHANGED <<currentLanguage, currentCategory, isListening, recognition, recLang,
                   recState, chatMessages, messageInput, placeholder, requests, nextSid,
                   clock, hist, Context>>

\* the 300 ms timer of hideStatusMessage fires for element i
RemoveTimerFires(i) ==
    /\ i \in DOMAIN statusEls
    /\ statusEls[i].hiding
    /\ statusEls' = RemoveAt(statusEls, i)
    /\ Quiet
    /\ UNCHANGED <<currentLanguage, currentCategory, isListening, recognition, recLang,
                   recState, chatMessages, messageInput, placeholder, hideTimers, requests,
                   nextSid, clock, hist, Context>>

\* time passes
Tick ==
    /\ clock < MaxClock
    /\ clock' = clock + 1
    /\ Quiet
    /\ UNCHANGED <<currentLanguage, currentCategory, isListening, recognition, recLang,
                   recState, chatMessages, messageInput, placeholder, statusEls, hideTimers,
                   requests, nextSid, hist, Context>>

\* --------------------------------------------------------------- specification
Next ==
    \/ \E t \in RawInputs : TypeText(t)
    \/ handleSendMessage
    \/ \E r \in requests : \E res \in FetchResults : FetchCompletes(r, res)
    \/ \E r \in requests : \E draw \in 0..(RandomSteps - 1) : FallbackTimer(r, draw)
    \/ toggleVoiceRecognition
    \/ OnStart
    \/ \E t \in Transcripts : OnResult(t)
    \/ OnError
    \/ OnEnd
    \/ EscapeKey
    \/ \E confirmed \in BOOLEAN : handleClearChat(confirmed)
    \/ handleDownloadChat
    \/ \E code \in LanguageChoices : handleLanguageChange(code)
    \/ \E btn \in CategoryControls : handleCategoryChange(btn)
    \/ \E text \in NoticeTexts : HideTimerFires(text)
    \/ \E i \in 1..2 : RemoveTimerFires(i)
    \/ Tick

Spec == Init /\ [][Next]_vars

\* Each specification below drives the same handlers with the inputs of one part
\* of the page.  SpecVoice and SpecSession run every handler of the page.

\* The page on a platform that offers speech recognition.
InitChat == Init /\ recognition

SendInputs == {<<>>, <<" ">>, <<" ", "reset my password", "\n">>}

\* The send pipeline: sends, their completions and fallback timers, with the
\* language and category selections as the other user actions.
NextSend ==
    \/ \E raw \in SendInputs : Submit(raw)
    \/ \E r \in requests : \E res \in FetchResults : FetchCompletes(r, res)
    \/ \E r \in requests : \E draw \in 0..(RandomSteps - 1) : FallbackTimer(r, draw)
    \/ \E code \in {"id", "ar"} : handleLanguageChange(code)
    \/ \E btn \in CategoryControls : handleCategoryChange(btn)
    \/ \E i \in 1..2 : RemoveTimerFires(i)

SpecSend == InitChat /\ [][NextSend]_vars

\* The message log: user and bot turns appended at different times, clear and
\* export, and the notice timers.
NextLog ==
    \/ Submit(<<" ", "reset my password", "\n">>)
    \/ \E r \in requests : \E res \in {x \in FetchResults : x.status = "success"} :
          FetchCompletes(r, res)
    \/ handleLanguageChange("id")
    \/ \E confirmed \in BOOLEAN : handleClearChat(confirmed)
    \/ handleDownloadChat
    \/ Tick
    \/ \E text \in NoticeTexts : HideTimerFires(text)
    \/ \E i \in 1..2 : RemoveTimerFires(i)

SpecLog == InitChat /\ [][NextLog]_vars

\* calls and timers outstanding
Outstanding == Cardinality(requests) + PendingHideTimers

\* Voice input and the language selector, on platforms with and without speech
\* recognition, with every other handler of the page free to run in between:
\* sends and their completions, clear, export, category selection and the notice
\* timers.  The run is bounded as the whole session below.
NextVoice ==
    \/ toggleVoiceRecognition
    \/ OnStart
    \/ \E t \in Transcripts : OnResult(t)
    \/ Outstanding < SessionPending /\ OnError
    \/ OnEnd
    \/ EscapeKey
    \/ Len(chatMessages) < SessionLog /\ \E code \in LanguageChoices : handleLanguageChange(code)
    \/ /\ Outstanding < SessionPending
       /\ Len(chatMessages) < SessionLog
       /\ Submit(<<" ", "reset my password", "\n">>)
    \/ \E r \in requests : \E res \in {x \in FetchResults : ~x.net \/ x.status = "success"} :
          FetchCompletes(r, res)
    \/ \E r \in requests : FallbackTimer(r, 0)
    \/ \E confirmed \in BOOLEAN : Outstanding < SessionPending /\ handleClearChat(confirmed)
    \/ Outstanding < SessionPending /\ handleDownloadChat
    \/ /\ Len(chatMessages) < SessionLog
       /\ \E btn \in {b \in CategoryControls : b.id = "account"} : handleCategoryChange(btn)
    \/ \E text \in NoticeTexts : HideTimerFires(text)
    \/ \E i \in 1..2 : RemoveTimerFires(i)

SpecVoice == Init /\ [][NextVoice]_vars

\* Endpoint resolution in every deployment context: the page calls
\* getApiEndpoint twice.
InitEndpoint ==
    /\ InitPage
    /\ location \in Locations
    /\ sessionStorage \in Storages

CallGetApiEndpoint ==
    /\ Len(resolved) < 2
    /\ resolved' = Append(resolved, getApiEndpoint)
    /\ UNCHANGED <<currentLanguage, currentCategory, isListening, recognition, recLang,
                   recState, chatMessages, messageInput, placeholder, statusEls, hideTimers,
                   requests, nextSid, clock, download, threw, location, sessionStorage,
                   hist>>

SpecEndpoint == InitEndpoint /\ [][CallGetApiEndpoint]_vars

\* The whole session on a platform with speech recognition: every handler of the
\* page, each free to run whatever else is pending.  The run is bounded by the
\* length of the log at which the user still adds to it (SessionLog) and by the
\* number of calls and timers outstanding at once (SessionPending).
NextSession ==
    \/ /\ Outstanding < SessionPending
       /\ Len(chatMessages) < SessionLog
       /\ Submit(<<" ", "reset my password", "\n">>)
    \/ \E r \in requests : \E res \in {x \in FetchResults : ~x.net \/ x.status = "success"} :
          FetchCompletes(r, res)
    \/ \E r \in requests : FallbackTimer(r, 0)
    \/ toggleVoiceRecognition
    \/ OnStart
    \/ \E t \in Transcripts : OnResult(t)
    \/ Outstanding < SessionPending /\ OnError
    \/ OnEnd
    \/ EscapeKey
    \/ \E confirmed \in BOOLEAN : Outstanding < SessionPending /\ handleClearChat(confirmed)
    \/ Outstanding < SessionPending /\ handleDownloadChat
    \/ Len(chatMessages) < SessionLog /\ handleLanguageChange("id")
    \/ /\ Len(chatMessages) < SessionLog
       /\ \E btn \in {b \in CategoryControls : b.id = "account"} : handleCategoryChange(btn)
    \/ \E text \in NoticeTexts : HideTimerFires(text)
    \/ \E i \in 1..2 : RemoveTimerFires(i)

SpecSession == InitChat /\ [][NextSession]_vars

\* Voice input where the platform and the timers do their part: a capture
\* session that can end does end (the platform fires end after result, error and
\* stop), and pending timers fire.
NextCapture ==
    \/ toggleVoiceRecognition
    \/ OnStart
    \/ \E t \in Transcripts : OnResult(t)
    \/ OnError
    \/ OnEnd
    \/ EscapeKey
    \/ handleLanguageChange("id")
    \/ \E text \in NoticeTexts : HideTimerFires(text)
    \/ \E i \in 1..2 : RemoveTimerFires(i)

SpecVoiceLive ==
    /\ Init
    /\ [][NextCapture]_vars
    /\ WF_vars(OnEnd)
    /\ WF_vars(\E text \in NoticeTexts : HideTimerFires(text))
    /\ WF_vars(\E i \in 1..2 : RemoveTimerFires(i))

\* The send pipeline where the remote call comes back and the timers fire; the
\* user's actions are not forced.
SpecSendLive ==
    /\ SpecSend
    /\ WF_vars(\E r \in requests : \E res \in FetchResults : FetchCompletes(r, res))
    /\ WF_vars(\E r \in requests : \E draw \in 0..(RandomSteps - 1) : FallbackTimer(r, draw))
    /\ WF_vars(\E i \in 1..2 : RemoveTimerFires(i))

\* ------------------------------------------------------------------ properties
IsBlank(raw) == \A i \in DOMAIN raw : raw[i] \in Whitespace

\* t is raw without its leading and trailing whitespace
IsTrimOf(t, raw) ==
    /\ t # <<>>
    /\ t[1] \notin Whitespace
    /\ t[Len(t)] \notin Whitespace
    /\ \E a \in 0..Len(raw) :
          /\ a + Len(t) <= Len(raw)
          /\ SubSeq(raw, a + 1, a + Len(t)) = t
          /\ \A i \in (1..a) \cup ((a + Len(t) + 1)..Len(raw)) : raw[i] \in Whitespace

LastOf(seq) == seq[Len(seq)]

\* the log grew by exactly one turn at its end
AppendedOne(old, new) ==
    /\ Len(new) = Len(old) + 1
    /\ SubSeq(new, 1, Len(old)) = old

\* C1: a send of text that is not blank appends exactly one user turn carrying
\* the trimmed text, and the remote call of that send is issued with that turn
\* already in the log (issuedAt is the length of the log when fetch was called).
C1_UserTurnBeforeRequest ==
    [][\A raw \in SendInputs :
         (~IsBlank(raw) /\ Submit(raw)) =>
            /\ AppendedOne(chatMessages, chatMessages')
            /\ LastOf(chatMessages').sender = "user"
            /\ LastOf(chatMessages').name = "You"
            /\ IsTrimOf(LastOf(chatMessages').text, raw)
            /\ \E r \in requests' :
                  /\ r \notin requests
                  /\ requests' = requests \cup {r}
                  /\ r.phase = "fetch"
                  /\ r.message = LastOf(chatMessages').text
                  /\ r.sid = LastOf(chatMessages').sid
                  /\ r.issuedAt = Len(chatMessages')
                  /\ hist'[r.sid].userTurns = 1
                  /\ hist'[r.sid].fetches = 1
      ]_vars

\* a send of " reset my password\n" was accepted: its user turn is the last of
\* the log and its call is pending
C1_Witness ==
    /\ chatMessages # <<>>
    /\ LastOf(chatMessages).sender = "user"
    /\ LastOf(chatMessages).text = <<"reset my password">>
    /\ \E r \in requests : r.phase = "fetch" /\ r.issuedAt = Len(chatMessages)

\* C2: a send of blank text (empty or whitespace only) leaves the log as it
\* is, issues no call, shows no notice and starts no timer.
C2_BlankSendIsNoOp ==
    [][\A raw \in SendInputs :
         (IsBlank(raw) /\ Submit(raw)) =>
            UNCHANGED <<chatMessages, requests, statusEls, hideTimers, hist, nextSid,
                        currentLanguage, currentCategory>>
      ]_vars

\* a whitespace-only send was made on a fresh page: the field still holds the
\* whitespace and nothing else happened
C2_Witness ==
    /\ messageInput = <<" ">>
    /\ chatMessages = <<>>
    /\ requests = {}
    /\ statusEls = <<>>

IsSuccess(res) == res.net /\ res.ok /\ res.json /\ res.status = "success"

\* C3 as stated: the reply to a send is the turn right after the send's user turn.
C3_ReplyRightAfterUserTurn ==
    \A i \in DOMAIN chatMessages :
       chatMessages[i].kind = "reply" =>
          /\ i > 1
          /\ chatMessages[i - 1].kind = "user"
          /\ chatMessages[i - 1].sid = chatMessages[i].sid

\* C3, amended: when the call of a send resolves Success with text R, the
\* completion appends exactly one turn at the end of the log as it is then, a
\* bot turn with text R, and the send is no longer pending; the turn need not be
\* adjacent to the send's user turn.
C3_SuccessAppendsReplyAtEnd ==
    [][\A r \in requests : \A res \in FetchResults :
         (IsSuccess(res) /\ FetchCompletes(r, res)) =>
            /\ AppendedOne(chatMessages, chatMessages')
            /\ LastOf(chatMessages').sender = "bot"
            /\ LastOf(chatMessages').text = res.response
            /\ LastOf(chatMessages').sid = r.sid
            /\ hist'[r.sid].replies = 1
            /\ \A q \in requests' : q.sid # r.sid
      ]_vars

\* a language change came between a send and its successful completion
C3_Witness ==
    \E i \in DOMAIN chatMessages :
       /\ i > 2
       /\ chatMessages[i].kind = "reply"
       /\ chatMessages[i].text = <<"R">>
       /\ chatMessages[i - 1].kind = "language"
       /\ chatMessages[i - 2].sid = chatMessages[i].sid

\* C4: a send whose call fails (network error, status not ok, malformed body,
\* body status other than success) gets at most one bot turn, exactly one once
\* its fallback timer has fired; the step that records the failure shows the
\* error notice and appends nothing; the bot turn is appended in a later step,
\* after the send's user turn; the call is issued once.
C4_OneFallbackAfterNotice ==
    [][\A s \in 1..MaxSends :
         /\ hist'[s].fetches <= 1
         /\ hist'[s].replies <= 1
         /\ (hist[s].outcome = "none" /\ hist'[s].outcome = "failure") =>
               /\ statusEls' # <<>>
               /\ LastOf(statusEls').type = "error"
               /\ ~LastOf(statusEls').hiding
               /\ hist'[s].noticed
               /\ chatMessages' = chatMessages
               /\ \E r \in requests' : r.sid = s /\ r.phase = "fallback"
         /\ (hist'[s].outcome = "failure" /\ hist'[s].replies > hist[s].replies) =>
               /\ hist[s].outcome = "failure"
               /\ hist[s].noticed
               /\ hist[s].userTurns = 1
               /\ AppendedOne(chatMessages, chatMessages')
               /\ LastOf(chatMessages').sender = "bot"
               /\ LastOf(chatMessages').sid = s
         /\ (hist'[s].outcome = "failure" /\ \A r \in requests' : r.sid # s) =>
               hist'[s].replies = 1
      ]_vars

\* a failed send has received its fallback turn
C4_Witness ==
    \E s \in 1..MaxSends :
       /\ hist[s].outcome = "failure"
       /\ hist[s].replies = 1
       /\ \E i \in DOMAIN chatMessages :
             chatMessages[i].kind = "fallback" /\ chatMessages[i].sid = s

\* the templates the claim allows for a category: the category's own, or the
\* general ones for an id the table has no key for
ClaimedTemplates(category, message) ==
    LET table == responses(message)
        cat == IF category \in DOMAIN table THEN category ELSE "general"
    IN {table[cat][i] : i \in DOMAIN table[cat]}

\* C5: the fallback turn's text is one of the templates of the active category
\* with the user's text interpolated, the general templates when the category id
\* is not a key of the table.
C5_FallbackIsCategoryTemplate ==
    [][\A r \in requests : \A draw \in 0..(RandomSteps - 1) :
         FallbackTimer(r, draw) =>
            LastOf(chatMessages').text \in ClaimedTemplates(currentCategory, r.message)
      ]_vars

\* C6: a declined clear changes neither the log, the session state nor the
\* notice; a confirmed clear leaves exactly one turn, the bot's greeting.
C6_ClearNeedsConfirmation ==
    [][/\ handleClearChat(FALSE) =>
             UNCHANGED <<chatMessages, currentLanguage, currentCategory, isListening,
                         statusEls, hideTimers>>
       /\ handleClearChat(TRUE) =>
             /\ Len(chatMessages') = 1
             /\ chatMessages'[1].sender = "bot"
             /\ chatMessages'[1].name = "Bantuan Bot"
             /\ chatMessages'[1].kind = "greeting"
             /\ Includes(chatMessages'[1].text,
                         "Hello! I'm Bantuan, your multi-lingual support assistant. I can help you in multiple ASEAN languages. How can I assist you today?")
      ]_vars

\* a log that held the turns of a send was cleared
C6_Witness ==
    /\ chatMessages = <<GreetingTurn>>
    /\ nextSid > 1
    /\ statusEls # <<>>
    /\ LastOf(statusEls).text = "Chat cleared successfully"

\* C7: export writes one record per turn of the log, in the log's order, each
\* with the turn's stored time, sender name and text, and leaves the log and
\* the session state as they were.
C7_ExportReproducesLog ==
    [][handleDownloadChat =>
         /\ UNCHANGED <<chatMessages, currentLanguage, currentCategory, isListening>>
         /\ download'.made
         /\ Len(download'.records) = Len(chatMessages)
         /\ \A i \in DOMAIN chatMessages :
               download'.records[i] =
                  <<"[", chatMessages[i].time, "] ", chatMessages[i].name, ":\n">>
                     \o chatMessages[i].text \o <<"\n\n">>
      ]_vars

\* an export of a log reached by a clear and later appends: the greeting, then
\* turns of both senders stamped at different times
C7_Witness ==
    /\ download.made
    /\ Len(download.records) >= 3
    /\ Len(download.records) = Len(chatMessages)
    /\ chatMessages[1] = GreetingTurn
    /\ \E i, j \in DOMAIN chatMessages :
          /\ i < j
          /\ chatMessages[i].sender = "user"
          /\ chatMessages[j].sender = "bot"
          /\ chatMessages[i].time # chatMessages[j].time

\* C8: isListening is never true with no capture session, and a toggle that
\* arrives while the recognizer is starting (before onstart) raises no error.
C8_DoubleToggleSafe ==
    [][/\ isListening' => recState' # "idle"
       /\ (recState = "starting" /\ toggleVoiceRecognition) => ~threw'
      ]_vars

\* the page's origin: scheme, host and port
Origin(loc) ==
    <<loc.protocol, "//">> \o loc.hostname
       \o (IF loc.port = "" THEN <<>> ELSE <<":", loc.port>>)

\* C9: the endpoint is the local base for a file page or a loopback host, else
\* the backend base for a static-hosting host, else the stored override, else
\* the page's origin; and two calls agree.
C9_EndpointPriority ==
    /\ \A i \in DOMAIN resolved :
          resolved[i] =
             IF location.protocol = "file:"
                \/ location.hostname \in {<<"localhost">>, <<"127.0.0.1">>}
             THEN <<"http://localhost:5000">>
             ELSE IF Includes(location.hostname, "azurestaticapps.net")
             THEN <<"https://bantuan-bjgjgwgrhmcwetah.australiaeast-01.azurewebsites.net">>
             ELSE IF sessionStorage.has /\ sessionStorage.backendUrl # <<>>
             THEN sessionStorage.backendUrl
             ELSE Origin(location)
    /\ Len(resolved) = 2 => resolved[1] = resolved[2]

\* the display name a language announcement turn carries
AnnouncedName(m) == m.text[2]

\* C10 as stated: a code outside the registry resolves to the English display
\* name, speech locale and placeholder: while such a code is the active
\* language the placeholder and the recognizer's locale are the English ones,
\* and the turn that announces the change to it carries the English name.
C10_UnknownIsEnglish ==
    [][/\ currentLanguage' \notin DOMAIN languages =>
             /\ placeholder' = placeholders.en
             /\ recognition' => recLang' = speechCodes.en
       /\ \A code \in LanguageChoices \ DOMAIN languages :
             handleLanguageChange(code) =>
                AnnouncedName(LastOf(chatMessages')) = languages.en
      ]_vars

\* C10, amended: a code that names no property of the registry tables resolves
\* to the English speech locale and placeholder and to the display name
\* "Unknown"; a code that names a member inherited from Object.prototype
\* resolves to that member in all three.  The placeholder and the recognizer's
\* locale stay so while the code is the active language, whatever else the
\* page does; the display name is the one the announcement of the change
\* carries.
C10_UnknownResolution ==
    [][/\ currentLanguage' \notin DOMAIN languages =>
             IF currentLanguage' \in DOMAIN ObjectPrototype
             THEN /\ placeholder' = ObjectPrototype[currentLanguage']
                  /\ recognition' => recLang' = ObjectPrototype[currentLanguage']
             ELSE /\ placeholder' = "Type your message here... (Press Enter to send)"
                  /\ recognition' => recLang' = "en-US"
       /\ \A code \in LanguageChoices \ DOMAIN languages :
             handleLanguageChange(code) =>
                AnnouncedName(LastOf(chatMessages')) =
                   IF code \in DOMAIN ObjectPrototype THEN ObjectPrototype[code]
                   ELSE "Unknown"
      ]_vars

\* the selector yielded ar on a platform with speech recognition, and a message
\* was sent after the announcement
C10_Witness ==
    /\ currentLanguage = "ar"
    /\ recognition
    /\ recLang = "en-US"
    /\ placeholder = placeholders.en
    /\ Len(chatMessages) = 2
    /\ chatMessages[1].kind = "language"
    /\ AnnouncedName(chatMessages[1]) = "Unknown"
    /\ chatMessages[2].kind = "user"
    /\ requests # {}


\* C11: in every state reached by language and category selections, sends,
\* clears, exports and voice events, the session has one active language code
\* and one active category id, each a value the page started with or a selector
\* or category control supplied; neither is null or undefined.
C11_OneLanguageOneCategory ==
    /\ currentLanguage \in {"en"} \cup LanguageChoices
    /\ currentCategory \in {"general"} \cup {b.id : b \in CategoryControls}
    /\ currentLanguage \notin {"null", "undefined", ""}
    /\ currentCategory \notin {"null", "undefined", ""}

\* language and category were both selected, a send was made, the log was
\* cleared and a capture session is running
C11_Witness ==
    /\ currentLanguage = "id"
    /\ currentCategory = "account"
    /\ nextSid > 1
    /\ chatMessages # <<>>
    /\ chatMessages[1] = GreetingTurn
    /\ isListening


\* old is an initial part of new
IsPrefix(old, new) ==
    /\ Len(old) <= Len(new)
    /\ SubSeq(new, 1, Len(old)) = old

\* C12: every step other than a confirmed clear (send, completion, fallback
\* timer, language or category change, export, voice event, notice timer) keeps
\* the turns of the log as they are, in content and order, and adds at most one
\* turn, at the end; a step that changes the log otherwise is a confirmed clear,
\* which replaces the whole log.
C12_AppendOnlyExceptClear ==
    [][/\ ~handleClearChat(TRUE) =>
             /\ IsPrefix(chatMessages, chatMessages')
             /\ Len(chatMessages') <= Len(chatMessages) + 1
       /\ ~IsPrefix(chatMessages, chatMessages') =>
             /\ handleClearChat(TRUE)
             /\ chatMessages' = <<GreetingTurn>>
      ]_vars

\* after a clear, turns were appended behind the greeting while notice timers
\* and a capture session came and went
C12_Witness ==
    /\ Len(chatMessages) >= 2
    /\ chatMessages[1] = GreetingTurn
    /\ chatMessages[2].kind \in {"user", "language", "category"}
    /\ recState = "finishing"


\* the voice error notice element g is in the document
VoiceErrorShown(g) ==
    \E i \in DOMAIN statusEls :
       /\ statusEls[i].text = "Voice recognition error. Please try again."
       /\ statusEls[i].gen = g

\* C13: when the platform reports a recognition error while the controller is
\* Listening, the error notice is shown by that step with its auto-dismiss timer
\* set, and from then on the controller comes back to Idle (isListening false,
\* by the end event the platform fires after an error) and the notice leaves
\* the document without a user action.
C13_ErrorReturnsToIdle ==
    /\ [][(isListening /\ OnError) =>
             /\ Len(statusEls') = 1
             /\ statusEls'[1].text = "Voice recognition error. Please try again."
             /\ statusEls'[1].type = "error"
             /\ ~statusEls'[1].hiding
             /\ hideTimers'["Voice recognition error. Please try again."]
                   = hideTimers["Voice recognition error. Please try again."] + 1
         ]_vars
    /\ \A g \in {0, 1} :
          /\ (isListening /\ VoiceErrorShown(g)) ~> ~isListening
          /\ (isListening /\ VoiceErrorShown(g)) ~> ~VoiceErrorShown(g)

\* an error was reported during a capture session that had started
C13_Witness ==
    /\ isListening
    /\ recState = "finishing"
    /\ VoiceErrorShown(1)
    /\ hideTimers["Voice recognition error. Please try again."] = 1


\* C14: the page is without a recognizer exactly when the platform offers none,
\* and stays so.  There, a toggle shows the "not supported" notice with its
\* auto-dismiss timer and does nothing else: no capture is started or stopped,
\* isListening stays false, no handler raises an error, and the cancel key
\* issues no stop request.
C14_UnavailableIsTerminal ==
    [][/\ recognition' = recognition
       /\ ~recognition =>
             /\ ~isListening'
             /\ recState' = "idle"
             /\ recLang' = recLang
             /\ ~threw'
             /\ toggleVoiceRecognition =>
                   /\ Len(statusEls') = 1
                   /\ statusEls'[1].text = "Voice recognition not supported in this browser"
                   /\ ~statusEls'[1].hiding
                   /\ hideTimers'["Voice recognition not supported in this browser"]
                         = hideTimers["Voice recognition not supported in this browser"] + 1
                   /\ UNCHANGED <<chatMessages, messageInput, currentLanguage,
                                  currentCategory, requests>>
             /\ EscapeKey => UNCHANGED <<recState, isListening, statusEls>>
      ]_vars

\* on a platform without speech recognition the toggle was used, after a
\* language change
C14_Witness ==
    /\ ~recognition
    /\ currentLanguage = "id"
    /\ statusEls # <<>>
    /\ statusEls[1].text = "Voice recognition not supported in this browser"
    /\ hideTimers["Voice recognition not supported in this browser"] = 1
    /\ ~isListening
    /\ recState = "idle"


\* the step appends the reply turn of request r
RepliesTo(r) ==
    \/ \E res \in FetchResults : IsSuccess(res) /\ FetchCompletes(r, res)
    \/ \E draw \in 0..(RandomSteps - 1) : FallbackTimer(r, draw)

\* C15: a send made while an earlier send is pending is accepted like any other
\* and leaves the earlier one pending; every pending call can come back with any
\* result and every pending fallback timer can fire, whatever else is pending;
\* the step that completes a send appends that send's reply at the end of the
\* log and leaves the other pending sends as they are, so replies stand in the
\* order of their completions, not of their sends.
C15_IndependentCompletions ==
    /\ [][/\ \A raw \in SendInputs :
                (~IsBlank(raw) /\ requests # {} /\ Submit(raw)) =>
                   /\ requests \subseteq requests'
                   /\ Cardinality(requests') = Cardinality(requests) + 1
                   /\ AppendedOne(chatMessages, chatMessages')
          /\ \A r \in requests :
                /\ RepliesTo(r) =>
                      /\ AppendedOne(chatMessages, chatMessages')
                      /\ LastOf(chatMessages').sid = r.sid
                      /\ LastOf(chatMessages').sender = "bot"
                      /\ requests' = requests \ {r}
                /\ (\E res \in FetchResults : FetchCompletes(r, res)) =>
                      \A q \in requests \ {r} : q \in requests'
         ]_vars
    /\ [](\A r \in requests :
             IF r.phase = "fetch"
             THEN \A res \in FetchResults : ENABLED FetchCompletes(r, res)
             ELSE \A draw \in 0..(RandomSteps - 1) : ENABLED FallbackTimer(r, draw))

\* a kind of turn that answers a send
IsReplyTurn(m) == m.kind \in {"reply", "fallback"}

\* two sends overlapped and the second was answered first, one of them by its
\* fallback timer
C15_Witness ==
    \E i, j \in DOMAIN chatMessages :
       /\ i < j
       /\ IsReplyTurn(chatMessages[i])
       /\ IsReplyTurn(chatMessages[j])
       /\ chatMessages[i].sid = 2
       /\ chatMessages[j].sid = 1
       /\ chatMessages[i].kind # chatMessages[j].kind
       /\ chatMessages[1].kind = "user"
       /\ chatMessages[2].kind = "user"


\* the step puts a new notice element into the document
ShowsNotice ==
    /\ statusEls' # <<>>
    /\ ~LastOf(statusEls').hiding
    /\ \/ statusEls = <<>>
       \/ LastOf(statusEls').gen # LastOf(statusEls).gen

\* C16: the document never holds more than one notice; a step that shows a
\* notice leaves that notice alone in the document, the one displayed before,
\* in its dismissal animation or not, being removed by the same step.
C16_AtMostOneNotice ==
    [][/\ Len(statusEls') <= 1
       /\ ShowsNotice => statusEls' = <<LastOf(statusEls')>>
      ]_vars

\* the cleared notice, already in its dismissal animation with its removal
\* pending, was replaced by the processing notice of a send
C16_Witness ==
    /\ Len(statusEls) = 1
    /\ statusEls[1].text = "Processing your request..."
    /\ statusEls[1].gen = 1
    /\ ~statusEls[1].hiding
    /\ chatMessages # <<>>
    /\ chatMessages[1] = GreetingTurn
    /\ hideTimers["Chat cleared successfully"] = 0


\* the step is a toggle that calls recognition.start()
RequestsStart == toggleVoiceRecognition /\ recognition /\ ~isListening

\* C17: toggle requests a start of the recognizer only when no capture session
\* it started earlier is still starting, capturing or finishing.
C17_OneCaptureSession ==
    [][RequestsStart => recState = "idle"]_vars


\* the texts of the notices a failed send shows
SendErrorTexts ==
    {"Error: " \o ErrorMessage(res) : res \in {x \in FetchResults : ErrorMessage(x) # ""}}

\* the error notice element g of a failed send is in the document and is not
\* in its dismissal animation
SendErrorShown(g) ==
    \E i \in DOMAIN statusEls :
       /\ statusEls[i].text \in SendErrorTexts
       /\ statusEls[i].gen = g
       /\ ~statusEls[i].hiding

\* C18: the error notice of a failed send is dismissed in every execution in
\* which the remote calls come back and the timers fire, with no user action
\* needed for it.
C18_SendErrorNoticeTransient ==
    \A g \in {0, 1} : SendErrorShown(g) ~> ~SendErrorShown(g)


\* C19: a step that starts a capture session leaves the recognizer's locale
\* equal to the speech locale of the language current at that moment; and a
\* language change to code sets the language to code, the placeholder and the
\* recognizer's locale (where there is a recognizer) to those of code, appends
\* exactly one bot turn announcing the language's name, and leaves the category
\* and isListening unchanged.
C19_LocaleFollowsLanguage ==
    [][/\ (recState' = "starting" /\ recState # "starting") =>
             /\ toggleVoiceRecognition
             /\ currentLanguage' = currentLanguage
             /\ recLang' = getLanguageCode(currentLanguage)
             /\ currentLanguage \in DOMAIN speechCodes =>
                   recLang' = speechCodes[currentLanguage]
       /\ \A code \in LanguageChoices :
             handleLanguageChange(code) =>
                /\ currentLanguage' = code
                /\ placeholder' = PlaceholderFor(code)
                /\ recognition => recLang' = getLanguageCode(code)
                /\ (recognition /\ code \in DOMAIN speechCodes) =>
                      /\ recLang' = speechCodes[code]
                      /\ placeholder' = placeholders[code]
                /\ AppendedOne(chatMessages, chatMessages')
                /\ LastOf(chatMessages').sender = "bot"
                /\ LastOf(chatMessages').text =
                      <<"Language changed to ", getLanguageName(code), ". How can I help you?">>
                /\ UNCHANGED <<currentCategory, isListening, recState>>
      ]_vars

\* a capture session was started after the language went to ar and then to id
C19_Witness ==
    /\ recState = "starting"
    /\ currentLanguage = "id"
    /\ recLang = "id-ID"
    /\ Len(chatMessages) >= 2
    /\ chatMessages[1].kind = "language"
    /\ chatMessages[2].kind = "language"
    /\ chatMessages[1].text[2] = "Unknown"
    /\ chatMessages[2].text[2] = "Bahasa Indonesia"
    /\ placeholder = placeholders.id


\* C20: the language changes only in a language selection and the category only
\* in a category selection: send, completion, fallback timer, clear, export,
\* voice events and notice timers leave both as they are.  The request of a send
\* carries the language and the category of the moment of the send, and keeps
\* them while it is pending, whatever is selected before the response arrives.
C20_SessionStateFrame ==
    [][/\ currentLanguage' # currentLanguage =>
             \E code \in LanguageChoices : handleLanguageChange(code)
       /\ currentCategory' # currentCategory =>
             \E btn \in CategoryControls : handleCategoryChange(btn)
       /\ ( \/ \E raw \in SendInputs : Submit(raw)
            \/ \E r \in requests : \E res \in FetchResults : FetchCompletes(r, res)
            \/ \E r \in requests : \E draw \in 0..(RandomSteps - 1) : FallbackTimer(r, draw)
            \/ \E confirmed \in BOOLEAN : handleClearChat(confirmed)
            \/ handleDownloadChat
            \/ \E text \in NoticeTexts : HideTimerFires(text)
            \/ \E i \in 1..2 : RemoveTimerFires(i) ) =>
             UNCHANGED <<currentLanguage, currentCategory>>
       /\ \A r \in requests' :
             IF \E q \in requests : q.sid = r.sid
             THEN \E q \in requests :
                     /\ q.sid = r.sid
                     /\ q.language = r.language
                     /\ q.category = r.category
                     /\ q.message = r.message
             ELSE /\ r.language = currentLanguage
                  /\ r.category = currentCategory
                  /\ UNCHANGED <<currentLanguage, currentCategory>>
      ]_vars

\* the language was changed while the call of a send made under en was pending
C20_Witness ==
    \E r \in requests :
       /\ r.phase = "fetch"
       /\ r.language = "en"
       /\ r.category = "general"
       /\ currentLanguage = "id"
       /\ currentCategory = r.category
       /\ LastOf(chatMessages).kind = "language"


\* C21: the timer set to dismiss a notice dismisses that notice only: when it
\* fires and a notice is put into its dismissal animation, that notice is the
\* one the timer was set for.
C21_TimerHidesOwnNotice ==
    [][\A text \in NoticeTexts :
         (HideTimerFires(text) /\ statusEls' # statusEls) =>
            statusEls[1].text = text
      ]_vars


\* C22 as stated: the fallback turn of a failed send is a template of the
\* category the send's request carried (ids that name an inherited member of
\* the table, the subject of C5, left aside).
C22_FallbackUsesRequestCategory ==
    [][\A r \in requests : \A draw \in 0..(RandomSteps - 1) :
         (/\ FallbackTimer(r, draw)
          /\ r.category \notin DOMAIN ObjectPrototype
          /\ currentCategory \notin DOMAIN ObjectPrototype) =>
            LastOf(chatMessages').text \in ClaimedTemplates(r.category, r.message)
      ]_vars

\* C22, amended: the fallback turn of a failed send is built from the category
\* that is active when the fallback timer fires, not from the one the request
\* carried: a template of that category's table, of the general table when the
\* id is no key of the table and names no inherited member, and the empty text
\* when the id names an inherited member; the user text interpolated is the
\* text of the send.
C22_FallbackUsesCategoryAtTimer ==
    [][\A r \in requests : \A draw \in 0..(RandomSteps - 1) :
         FallbackTimer(r, draw) =>
            /\ LastOf(chatMessages').kind = "fallback"
            /\ LastOf(chatMessages').sid = r.sid
            /\ IF currentCategory \in {"general", "technical", "account", "billing"}
               THEN LastOf(chatMessages').text
                       \in ClaimedTemplates(currentCategory, r.message)
               ELSE IF currentCategory \in DOMAIN ObjectPrototype
               THEN LastOf(chatMessages').text = <<>>
               ELSE LastOf(chatMessages').text \in ClaimedTemplates("general", r.message)
      ]_vars

\* a send made under general failed, the category went to account before the
\* fallback timer fired, and the fallback turn is an account template
C22_Witness ==
    /\ Len(chatMessages) = 3
    /\ chatMessages[1].kind = "user"
    /\ chatMessages[2].kind = "category"
    /\ chatMessages[2].text = <<"Switched to ", "Account", " support. What can I help you with?">>
    /\ chatMessages[3].kind = "fallback"
    /\ chatMessages[3].sid = chatMessages[1].sid
    /\ chatMessages[3].text \in ClaimedTemplates("account", chatMessages[1].text)
    /\ chatMessages[3].text \notin ClaimedTemplates("general", chatMessages[1].text)


\* C23: every reply turn of the log, success reply or fallback, has the user
\* turn of its send somewhere before it in the log.
C23_ReplyFollowsItsUserTurn ==
    \A i \in DOMAIN chatMessages :
       IsReplyTurn(chatMessages[i]) =>
          \E j \in 1..(i - 1) :
             /\ chatMessages[j].kind = "user"
             /\ chatMessages[j].sid = chatMessages[i].sid


\* send s was accepted
Accepted(s) == hist[s].fetches = 1

\* send s is over: neither its call nor its fallback timer is pending
Completed(s) == Accepted(s) /\ \A r \in requests : r.sid # s

\* the reply turns appended so far, over all sends
RECURSIVE RepliesUpTo(_)
RepliesUpTo(n) == IF n = 0 THEN 0 ELSE hist[n].replies + RepliesUpTo(n - 1)

\* C24: where the remote calls come back and the timers fire, every accepted
\* send comes to be over with exactly one reply turn appended for it; at no time
\* has a send more than one reply turn, a send that is over has exactly one, by
\* the completion if it succeeded and by the fallback timer if it failed, and
\* once no send is pending the number of reply turns appended is the number of
\* sends accepted.
C24_OneReplyPerSend ==
    /\ [](\A s \in 1..MaxSends :
             /\ hist[s].replies <= 1
             /\ ~Accepted(s) => hist[s].replies = 0
             /\ Completed(s) =>
                   /\ hist[s].replies = 1
                   /\ hist[s].outcome \in {"success", "failure"})
    /\ [](requests = {} => RepliesUpTo(MaxSends) = nextSid - 1)
    /\ [][\A s \in 1..MaxSends :
            hist'[s].replies > hist[s].replies =>
               /\ AppendedOne(chatMessages, chatMessages')
               /\ LastOf(chatMessages').sid = s
               /\ LastOf(chatMessages').kind =
                     (IF hist[s].outcome = "failure" THEN "fallback" ELSE "reply")
               /\ Completed(s)'
         ]_vars
    /\ \A s \in 1..MaxSends : Accepted(s) ~> (Completed(s) /\ hist[s].replies = 1)

\* two sends were accepted and are over, one answered by the remote service
\* and one by the fallback, with two reply turns in all
C24_Witness ==
    /\ nextSid = 3
    /\ requests = {}
    /\ hist[1].outcome = "failure"
    /\ hist[2].outcome = "success"
    /\ RepliesUpTo(MaxSends) = 2
    /\ Cardinality({i \in DOMAIN chatMessages : IsReplyTurn(chatMessages[i])}) = 2

====
